---- MODULE Spec2Model ----
(***************************************************************************)
(* bfjit: the Brainfuck parser (bfir::compile), the peephole optimiser     *)
(* (bfir::optimize), the x86-64 code generator (BfVM::compile) and the     *)
(* generated code running against the tape and the host callbacks.         *)
(***************************************************************************)
EXTENDS Integers, Sequences, FiniteSets, TLC

(***************************************************************************)
(* Bounds.                                                                 *)
(***************************************************************************)
\* longest source text handed to bfir::compile alone
MaxTextLen == 4
\* longest IR vector handed to bfir::optimize alone
MaxIRLen == 3
\* longest source text of a program that is built and run
MaxSrcLen == 4
\* reads whose outcome the input stream chooses freely; later reads are EOF
MaxInput == 1
\* bytes the output sink takes before the model stops following the run
MaxOutput == 3
\* width in bits of the u32 operand of AddPtr/SubPtr (32 in the code), scaled
\* so that a run of `>` parsed from a source text can wrap it
U32_BITS == 2
\* cells of the tape (4 MiB in the code), scaled; at most 2^(U32_BITS-1)
MAX_MEM_SIZE == 2
\* longest input stream fed to the echo program
EchoMaxInput == 3

(***************************************************************************)
(* Program constants.                                                      *)
(***************************************************************************)
\* values of a u8: the operand of AddVal/SubVal and a tape cell
U8_RANGE == 256

RECURSIVE Pow2(_)
Pow2(n) == IF n = 0 THEN 1 ELSE 2 * Pow2(n - 1)

\* values of a u32 operand
U32_RANGE == Pow2(U32_BITS)
\* values of a 64-bit register (scaled with the operand width)
REG_RANGE == Pow2(U32_BITS + 2)

SeqsUpTo(S, n) == UNION {[1..k -> S] : k \in 0..n}

(***************************************************************************)
(* bfir::BfIR                                                              *)
(***************************************************************************)
AddVal(x) == [op |-> "AddVal", x |-> x]
SubVal(x) == [op |-> "SubVal", x |-> x]
AddPtr(x) == [op |-> "AddPtr", x |-> x]
SubPtr(x) == [op |-> "SubPtr", x |-> x]
GetByte == [op |-> "GetByte", x |-> 0]
PutByte == [op |-> "PutByte", x |-> 0]
Jz == [op |-> "Jz", x |-> 0]
Jnz == [op |-> "Jnz", x |-> 0]

(***************************************************************************)
(* bfir::compile                                                           *)
(***************************************************************************)
NoError == [kind |-> "none", line |-> 0, col |-> 0]

\* the position handed over in the wrong order
CompileError_swapped(line, col, kind) == [kind |-> kind, line |-> col, col |-> line]

CompileError(line, col, kind) == [kind |-> kind, line |-> line, col |-> col]

\* a parser that fuses as it pushes: a repeated operator bumps the operand
push_fusing(ir, instr) ==
    IF ir # <<>> /\ ir[Len(ir)].op = instr.op /\ instr.x # 0
    THEN [ir EXCEPT ![Len(ir)].x = ir[Len(ir)].x + instr.x]
    ELSE Append(ir, instr)

\* ir.push(instr)
push(ir, instr) == Append(ir, instr)

\* one iteration of `for ch in src.chars()`; st.err is set where `?` returns
compileChar(st, ch) ==
    LET col == st.col + 1
        at == [st EXCEPT !.col = col]
    IN  CASE ch = "\n" -> [at EXCEPT !.line = st.line + 1, !.col = 0]
          [] ch = "+" -> [at EXCEPT !.ir = push(st.ir, AddVal(1))]
          [] ch = "-" -> [at EXCEPT !.ir = push(st.ir, SubVal(1))]
          [] ch = ">" -> [at EXCEPT !.ir = push(st.ir, AddPtr(1))]
          [] ch = "<" -> [at EXCEPT !.ir = push(st.ir, SubPtr(1))]
          [] ch = "," -> [at EXCEPT !.ir = push(st.ir, GetByte)]
          [] ch = "." -> [at EXCEPT !.ir = push(st.ir, PutByte)]
          [] ch = "[" ->
                [at EXCEPT !.stk = Append(st.stk,
                                     [pos |-> Len(st.ir), line |-> st.line, col |-> col]),
                           !.ir = push(st.ir, Jz)]
          [] ch = "]" ->
                IF st.stk = <<>>
                THEN [at EXCEPT !.err = CompileError(st.line, col, "UnexpectedRightBracket")]
                ELSE [at EXCEPT !.stk = SubSeq(st.stk, 1, Len(st.stk) - 1),
                                !.ir = push(st.ir, Jnz)]
          [] OTHER -> at

RECURSIVE compileLoop(_, _, _)
compileLoop(src, k, st) ==
    IF k > Len(src) \/ st.err # NoError
    THEN st
    ELSE compileLoop(src, k + 1, compileChar(st, src[k]))

\* a parser that forgets the check of the stack after the scan
compile_unchecked(src) ==
    LET st == compileLoop(src, 1,
                  [ir |-> <<>>, stk |-> <<>>, line |-> 1, col |-> 0, err |-> NoError])
    IN  IF st.err # NoError
        THEN [ok |-> FALSE, ir |-> <<>>, err |-> st.err]
        ELSE [ok |-> TRUE, ir |-> st.ir, err |-> NoError]

\* Result<Vec<BfIR>, CompileError>: ok with the IR, or the error and no IR
compile(src) ==
    LET st == compileLoop(src, 1,
                  [ir |-> <<>>, stk |-> <<>>, line |-> 1, col |-> 0, err |-> NoError])
    IN  IF st.err # NoError
        THEN [ok |-> FALSE, ir |-> <<>>, err |-> st.err]
        ELSE IF st.stk # <<>>
        THEN [ok |-> FALSE, ir |-> <<>>,
              err |-> CompileError(st.stk[Len(st.stk)].line, st.stk[Len(st.stk)].col,
                                   "UnclosedLeftBracket")]
        ELSE [ok |-> TRUE, ir |-> st.ir, err |-> NoError]

(***************************************************************************)
(* bfir::optimize                                                          *)
(***************************************************************************)
Foldable(op) == op \in {"AddPtr", "SubPtr", "AddVal", "SubVal"}

OperandRange(op) == IF op \in {"AddPtr", "SubPtr"} THEN U32_RANGE ELSE U8_RANGE

\* a sum that sticks at the top of the range instead of wrapping
saturating_add(op, x, d) ==
    IF x + d >= OperandRange(op) THEN OperandRange(op) - 1 ELSE x + d

wrapping_add(op, x, d) == (x + d) % OperandRange(op)

\* a scan that folds at most one following instruction
foldScan_once(ir, variant, j, x) ==
    IF j < Len(ir) /\ ir[j + 1].op = variant
    THEN [j |-> j + 1, x |-> wrapping_add(variant, x, ir[j + 1].x)]
    ELSE [j |-> j, x |-> x]

\* the `while j < len` loop of _fold_ir!: j and x when it leaves (j is 0-based)
RECURSIVE foldScan(_, _, _, _)
foldScan(ir, variant, j, x) ==
    IF j < Len(ir) /\ ir[j + 1].op = variant
    THEN foldScan(ir, variant, j + 1, wrapping_add(variant, x, ir[j + 1].x))
    ELSE [j |-> j, x |-> x]

\* _fold_ir!($variant, $x) at read index i, write index pc
fold_ir(ir, i, pc) ==
    LET f == foldScan(ir, ir[i + 1].op, i + 1, ir[i + 1].x)
    IN  [ir |-> [ir EXCEPT ![pc + 1] = [op |-> ir[i + 1].op, x |-> f.x]],
         i |-> f.j, pc |-> pc + 1]

\* _normal_ir!()
normal_ir(ir, i, pc) ==
    [ir |-> [ir EXCEPT ![pc + 1] = ir[i + 1]], i |-> i + 1, pc |-> pc + 1]

RECURSIVE optimizeLoop(_, _, _)
optimizeLoop(ir, i, pc) ==
    IF i < Len(ir)
    THEN LET s == IF Foldable(ir[i + 1].op) THEN fold_ir(ir, i, pc)
                  ELSE normal_ir(ir, i, pc)
         IN  optimizeLoop(s.ir, s.i, s.pc)
    ELSE [ir |-> ir, pc |-> pc]

\* the vector after ir.truncate(pc)
optimize(ir) ==
    LET s == optimizeLoop(ir, 0, 0)
    IN  SubSeq(s.ir, 1, s.pc)

(***************************************************************************)
(* BfVM::compile: the loop stack and the dynamic labels of the generated   *)
(* code.  A position is the index of the IR instruction whose code follows *)
(* the label (0-based, Len(code) is the epilogue).                         *)
(***************************************************************************)
Unbound == -1

\* the Jz arm at instruction k (1-based): two fresh labels, `=> left` set here
genJz(cg, k) ==
    LET left == Len(cg.label) + 1
        right == Len(cg.label) + 2
    IN  [cg EXCEPT !.label = cg.label \o <<k, Unbound>>,
                   !.loop_stack = Append(cg.loop_stack, <<left, right>>),
                   !.jump = Append(cg.jump, right)]

\* a Jnz arm that jumps to the label it is about to set
genJnz_rightLabel(cg, k) ==
    IF cg.loop_stack = <<>>
    THEN [cg EXCEPT !.panic = TRUE]
    ELSE LET top == cg.loop_stack[Len(cg.loop_stack)]
         IN  [cg EXCEPT !.loop_stack = SubSeq(cg.loop_stack, 1, Len(cg.loop_stack) - 1),
                        !.label = [cg.label EXCEPT ![top[2]] = k],
                        !.jump = Append(cg.jump, top[2])]

\* the Jnz arm at instruction k: loop_stack.pop().unwrap(), `=> right` set here
genJnz(cg, k) ==
    IF cg.loop_stack = <<>>
    THEN [cg EXCEPT !.panic = TRUE]
    ELSE LET top == cg.loop_stack[Len(cg.loop_stack)]
         IN  [cg EXCEPT !.loop_stack = SubSeq(cg.loop_stack, 1, Len(cg.loop_stack) - 1),
                        !.label = [cg.label EXCEPT ![top[2]] = k],
                        !.jump = Append(cg.jump, top[1])]

RECURSIVE genLoop(_, _, _)
genLoop(code, k, cg) ==
    IF k > Len(code) \/ cg.panic
    THEN cg
    ELSE genLoop(code, k + 1,
                 CASE code[k].op = "Jz" -> genJz(cg, k)
                   [] code[k].op = "Jnz" -> genJnz(cg, k)
                   [] OTHER -> [cg EXCEPT !.jump = Append(cg.jump, 0)])

\* the generated function: per instruction the position its jump continues at
\* (Unbound where the instruction has none); panic is the unwrap at Jnz on an
\* empty loop stack, or finalize() meeting a label never set
BfVM_compile(code) ==
    LET cg == genLoop(code, 1,
                  [loop_stack |-> <<>>, label |-> <<>>, jump |-> <<>>, panic |-> FALSE])
        target == [k \in 1..Len(cg.jump) |->
                      IF cg.jump[k] = 0 THEN Unbound ELSE cg.label[cg.jump[k]]]
    IN  [panic |-> cg.panic \/ \E k \in 1..Len(code) :
                                   code[k].op \in {"Jz", "Jnz"} /\ target[k] = Unbound,
         loop_stack |-> cg.loop_stack,
         target |-> target]

(***************************************************************************)
(* The lowering of AddPtr/SubPtr: 64-bit register arithmetic with the      *)
(* operand as a sign-extended 32-bit immediate.                            *)
(***************************************************************************)
\* `x as i32`
as_i32(x) == IF 2 * x >= U32_RANGE THEN x - U32_RANGE ELSE x

\* the immediate sign-extended to the register width, as an unsigned value
imm64(x) == (as_i32(x) + REG_RANGE) % REG_RANGE

\* add r15, x as i32: the new r15 and the carry flag
add_r15(r15, x) ==
    [r15 |-> (r15 + imm64(x)) % REG_RANGE, cf |-> r15 + imm64(x) >= REG_RANGE]

\* sub r15, x as i32: the new r15 and the carry (borrow) flag
sub_r15(r15, x) ==
    [r15 |-> (r15 - imm64(x) + REG_RANGE) % REG_RANGE, cf |-> r15 < imm64(x)]

\* an AddPtr lowering without the compare against memory_end
AddPtrOverflow_carryOnly(a, memory_end) == a.cf

\* jc ->overflow; cmp r15, r14; jnb ->overflow
AddPtrOverflow(a, memory_end) == a.cf \/ a.r15 >= memory_end

\* jc ->overflow; cmp r15, r13; jb ->overflow
SubPtrOverflow(a, memory_start) == a.cf \/ a.r15 < memory_start

\* add BYTE [r15], x as i8
add_byte(c, x) == (c + x) % U8_RANGE

\* sub BYTE [r15], x as i8
sub_byte(c, x) == (c - x + U8_RANGE) % U8_RANGE

(***************************************************************************)
(* State.                                                                  *)
(***************************************************************************)
VARIABLES
    src,        \* the source text (the content of the file BfVM::new reads)
    cres,       \* what bfir::compile returned for src (parser checked alone)
    hist,       \* an IR vector and its value after each call of bfir::optimize
    input,      \* the outcomes of the input stream's reads, as far as decided
    wlog,       \* the outcomes of the output sink's writes, as far as decided
    lazy,       \* whether the streams still choose the outcomes not yet decided
    vm,         \* the BfVM, the registers of its generated code and its phase
    heap,       \* the VMError records vm_error has boxed during the run
    reclaimed,  \* the records BfVM::run took back with Box::from_raw
    result      \* per optimize flag: what BfVM::new or BfVM::run returned

vars == <<src, cres, hist, input, wlog, lazy, vm, heap, reclaimed, result>>

Operators == {"+", "-", ">", "<", ",", ".", "[", "]"}
\* a source text also holds newlines and characters the parser ignores
Chars == Operators \cup {"\n", "x"}

None == [verdict |-> "none", output |-> <<>>]
NoResult == [ok |-> FALSE, ir |-> <<>>, err |-> [kind |-> "pending", line |-> 0, col |-> 0]]

\* Ok(1) with the byte read, Ok(0) at end of input, Err(e)
Ok1(b) == [n |-> 1, b |-> b, err |-> FALSE]
Ok0 == [n |-> 0, b |-> 0, err |-> FALSE]
ReadErr == [n |-> 0, b |-> 0, err |-> TRUE]
ReadOutcomes == {Ok1(0), Ok1(1), Ok0, ReadErr}

\* addresses the tape may be allocated at: the lowest, and the highest of the
\* lower half of the address space
Bases == {1, (REG_RANGE \div 2) - MAX_MEM_SIZE}

NoVM ==
    [optimize |-> FALSE, phase |-> "idle", code |-> <<>>, target |-> <<>>,
     loop_stack |-> <<>>, memory_start |-> 0, r15 |-> 0,
     memory |-> [a \in 0..(MAX_MEM_SIZE - 1) |-> 0],
     pc |-> 0, inpos |-> 0, output |-> <<>>, rax |-> 0]

memory_end == vm.memory_start + MAX_MEM_SIZE
InTape == vm.memory_start <= vm.r15 /\ vm.r15 < memory_end
\* BYTE [r15]
Cell == vm.memory[vm.r15 - vm.memory_start]
Running == vm.phase = "jit" /\ vm.pc < Len(vm.code)
Instr == vm.code[vm.pc + 1]
\* vm_error: box the error, hand out the pointer (the index of the box)
vm_error(kind) == Append(heap, [kind |-> kind])

(***************************************************************************)
(* BfVM::new, BfVM::run and the generated code, one action per lowered IR  *)
(* instruction.                                                            *)
(***************************************************************************)
\* BfVM::new(file_path, input, output, optimize): the file holds src
New(optimize_) ==
    /\ vm.phase \in {"idle", "failed", "returned"}
    /\ result[optimize_] = None
    /\ LET c == compile(src)
           ir == IF optimize_ THEN optimize(c.ir) ELSE c.ir
           g == BfVM_compile(ir)
       IN  IF ~c.ok
           THEN /\ vm' = [NoVM EXCEPT !.optimize = optimize_, !.phase = "failed"]
                /\ result' = [result EXCEPT ![optimize_] =
                                 [verdict |-> c.err.kind, output |-> <<>>]]
           ELSE IF g.panic
           THEN /\ vm' = [NoVM EXCEPT !.optimize = optimize_, !.phase = "panic",
                                      !.code = ir, !.loop_stack = g.loop_stack]
                /\ result' = result
           ELSE /\ \E base \in Bases :
                       vm' = [NoVM EXCEPT !.optimize = optimize_, !.phase = "ready",
                                          !.code = ir, !.target = g.target,
                                          !.loop_stack = g.loop_stack,
                                          !.memory_start = base]
                /\ result' = result
    /\ heap' = <<>>
    /\ reclaimed' = <<>>
    /\ UNCHANGED <<src, cres, hist, input, wlog, lazy>>

\* BfVM::run up to the call, and the prologue: ptr = memory_start
RunEnter ==
    /\ vm.phase = "ready"
    /\ vm' = [vm EXCEPT !.phase = "jit", !.r15 = vm.memory_start, !.pc = 0]
    /\ UNCHANGED <<src, cres, hist, input, wlog, lazy, heap, reclaimed, result>>

\* an overflow label placed at io_error: no call of overflow_error
Overflow_noCall(r15_) ==
    /\ heap' = heap
    /\ vm' = [vm EXCEPT !.r15 = r15_, !.phase = "exit"]

\* the overflow trampoline: call overflow_error, jmp exit
Overflow(r15_) ==
    /\ heap' = vm_error("PointerOverflow")
    /\ vm' = [vm EXCEPT !.r15 = r15_, !.rax = Len(heap'), !.phase = "exit"]

ExecAddPtr ==
    /\ Running /\ Instr.op = "AddPtr"
    /\ LET a == add_r15(vm.r15, Instr.x)
       IN  IF AddPtrOverflow(a, memory_end)
           THEN Overflow(a.r15)
           ELSE /\ vm' = [vm EXCEPT !.r15 = a.r15, !.pc = vm.pc + 1]
                /\ heap' = heap
    /\ UNCHANGED <<src, cres, hist, input, wlog, lazy, reclaimed, result>>

ExecSubPtr ==
    /\ Running /\ Instr.op = "SubPtr"
    /\ LET a == sub_r15(vm.r15, Instr.x)
       IN  IF SubPtrOverflow(a, vm.memory_start)
           THEN Overflow(a.r15)
           ELSE /\ vm' = [vm EXCEPT !.r15 = a.r15, !.pc = vm.pc + 1]
                /\ heap' = heap
    /\ UNCHANGED <<src, cres, hist, input, wlog, lazy, reclaimed, result>>

\* a store through r15; outside the tape it is a wild write
Store(v) ==
    IF InTape
    THEN [vm EXCEPT !.memory[vm.r15 - vm.memory_start] = v, !.pc = vm.pc + 1]
    ELSE [vm EXCEPT !.phase = "wild"]

ExecAddVal ==
    /\ Running /\ Instr.op = "AddVal"
    /\ vm' = Store(add_byte(IF InTape THEN Cell ELSE 0, Instr.x))
    /\ UNCHANGED <<src, cres, hist, input, wlog, lazy, heap, reclaimed, result>>

ExecSubVal ==
    /\ Running /\ Instr.op = "SubVal"
    /\ vm' = Store(sub_byte(IF InTape THEN Cell ELSE 0, Instr.x))
    /\ UNCHANGED <<src, cres, hist, input, wlog, lazy, heap, reclaimed, result>>

\* what this.input.read(&mut buf) may return for the read after vm.inpos
ReadChoices ==
    IF vm.inpos < Len(input) THEN {input[vm.inpos + 1]}
    ELSE IF lazy /\ Len(input) < MaxInput THEN ReadOutcomes
    ELSE {Ok0}

\* BfVM::getbyte and the `test rax, rax; jnz ->io_error` after the call
ExecGetByte ==
    /\ Running /\ Instr.op = "GetByte"
    /\ \E r \in ReadChoices :
          /\ input' = IF vm.inpos < Len(input) \/ ~(lazy /\ Len(input) < MaxInput)
                      THEN input ELSE Append(input, r)
          /\ LET at == [vm EXCEPT !.inpos = IF vm.inpos < Len(input') THEN vm.inpos + 1
                                            ELSE vm.inpos]
             IN  IF r.err
                 THEN /\ heap' = vm_error("IO")
                      /\ vm' = [at EXCEPT !.rax = Len(heap'), !.phase = "exit"]
                 ELSE /\ heap' = heap
                      /\ vm' = IF r.n = 0 THEN [at EXCEPT !.pc = vm.pc + 1]
                               ELSE IF InTape
                               THEN [at EXCEPT !.memory[vm.r15 - vm.memory_start] = r.b,
                                               !.pc = vm.pc + 1]
                               ELSE [at EXCEPT !.phase = "wild"]
    /\ UNCHANGED <<src, cres, hist, wlog, lazy, reclaimed, result>>

\* whether this.output.write_all(buf) may succeed for the write after vm.output
WriteChoices ==
    IF Len(vm.output) < Len(wlog) THEN {wlog[Len(vm.output) + 1]}
    ELSE IF lazy THEN BOOLEAN
    ELSE {TRUE}

\* BfVM::putbyte and the `test rax, rax; jnz ->io_error` after the call
ExecPutByte ==
    /\ Running /\ Instr.op = "PutByte"
    /\ Len(vm.output) < MaxOutput
    /\ \E w \in WriteChoices :
          /\ wlog' = IF Len(vm.output) < Len(wlog) \/ ~lazy THEN wlog ELSE Append(wlog, w)
          /\ IF ~InTape
             THEN /\ vm' = [vm EXCEPT !.phase = "wild"]
                  /\ heap' = heap
             ELSE IF w
             THEN /\ vm' = [vm EXCEPT !.output = Append(vm.output, Cell), !.pc = vm.pc + 1]
                  /\ heap' = heap
             ELSE /\ heap' = vm_error("IO")
                  /\ vm' = [vm EXCEPT !.rax = Len(heap'), !.phase = "exit"]
    /\ UNCHANGED <<src, cres, hist, input, lazy, reclaimed, result>>

\* cmp BYTE [r15], 0; jz => right; => left
ExecJz ==
    /\ Running /\ Instr.op = "Jz"
    /\ vm' = IF ~InTape THEN [vm EXCEPT !.phase = "wild"]
             ELSE IF Cell = 0 THEN [vm EXCEPT !.pc = vm.target[vm.pc + 1]]
             ELSE [vm EXCEPT !.pc = vm.pc + 1]
    /\ UNCHANGED <<src, cres, hist, input, wlog, lazy, heap, reclaimed, result>>

\* a loop end that jumps back on a zero cell
ExecJnz_inverted ==
    /\ Running /\ Instr.op = "Jnz"
    /\ vm' = IF ~InTape THEN [vm EXCEPT !.phase = "wild"]
             ELSE IF Cell = 0 THEN [vm EXCEPT !.pc = vm.target[vm.pc + 1]]
             ELSE [vm EXCEPT !.pc = vm.pc + 1]
    /\ UNCHANGED <<src, cres, hist, input, wlog, lazy, heap, reclaimed, result>>

\* cmp BYTE [r15], 0; jnz => left; => right
ExecJnz ==
    /\ Running /\ Instr.op = "Jnz"
    /\ vm' = IF ~InTape THEN [vm EXCEPT !.phase = "wild"]
             ELSE IF Cell # 0 THEN [vm EXCEPT !.pc = vm.target[vm.pc + 1]]
             ELSE [vm EXCEPT !.pc = vm.pc + 1]
    /\ UNCHANGED <<src, cres, hist, input, wlog, lazy, heap, reclaimed, result>>

\* past the last instruction: xor rax, rax; jmp >exit
ExecEnd ==
    /\ vm.phase = "jit" /\ vm.pc = Len(vm.code)
    /\ vm' = [vm EXCEPT !.rax = 0, !.phase = "exit"]
    /\ UNCHANGED <<src, cres, hist, input, wlog, lazy, heap, reclaimed, result>>

\* BfVM::run after the call: Ok(()) on null, else Err(*Box::from_raw(ret))
RunReturn ==
    /\ vm.phase = "exit"
    /\ vm' = [vm EXCEPT !.phase = "returned"]
    /\ reclaimed' = IF vm.rax = 0 THEN reclaimed ELSE Append(reclaimed, vm.rax)
    /\ result' = [result EXCEPT ![vm.optimize] =
                     [verdict |-> IF vm.rax = 0 THEN "Ok" ELSE heap[vm.rax].kind,
                      output |-> vm.output]]
    /\ UNCHANGED <<src, cres, hist, input, wlog, lazy, heap>>

Idle ==
    /\ cres = NoResult /\ hist = <<>>
    /\ vm = NoVM /\ heap = <<>> /\ reclaimed = <<>>
    /\ result = [o \in BOOLEAN |-> None]

Init ==
    /\ src \in SeqsUpTo(Operators, MaxSrcLen)
    /\ input = <<>> /\ wlog = <<>> /\ lazy = TRUE
    /\ Idle

Next ==
    \/ \E o \in BOOLEAN : New(o)
    \/ RunEnter
    \/ ExecAddPtr
    \/ ExecSubPtr
    \/ ExecAddVal
    \/ ExecSubVal
    \/ ExecGetByte
    \/ ExecPutByte
    \/ ExecJz
    \/ ExecJnz
    \/ ExecEnd
    \/ RunReturn

Spec == Init /\ [][Next]_vars

(***************************************************************************)
(* bfir::compile checked alone: any text over the operators, the newline   *)
(* and an ignored character.                                               *)
(***************************************************************************)
CompileCall ==
    /\ cres = NoResult
    /\ cres' = compile(src)
    /\ UNCHANGED <<src, hist, input, wlog, lazy, vm, heap, reclaimed, result>>

InitCompile ==
    /\ src \in SeqsUpTo(Chars, MaxTextLen)
    /\ input = <<>> /\ wlog = <<>> /\ lazy = FALSE
    /\ Idle

NextCompile == CompileCall

SpecCompile == InitCompile /\ [][NextCompile]_vars

(***************************************************************************)
(* bfir::optimize checked alone: any IR vector, brackets matched or not,   *)
(* operands at both ends of their range; and the vector of the unit test.  *)
(***************************************************************************)
ValOperands == {1, U8_RANGE - 1}
PtrOperands == {0, 1, U32_RANGE - 1}
Instructions ==
    {AddVal(x) : x \in ValOperands} \cup {SubVal(x) : x \in ValOperands}
        \cup {AddPtr(x) : x \in PtrOperands} \cup {SubPtr(x) : x \in PtrOperands}
        \cup {GetByte, PutByte, Jz, Jnz}

\* the IR of `[+++++]`, as test_compile builds it
TestVector == compile(<<"[", "+", "+", "+", "+", "+", "]">>).ir

OptimizeCall ==
    /\ hist # <<>> /\ Len(hist) < 3
    /\ hist' = Append(hist, optimize(hist[Len(hist)]))
    /\ UNCHANGED <<src, cres, input, wlog, lazy, vm, heap, reclaimed, result>>

InitOptimize ==
    /\ src = <<>>
    /\ cres = NoResult
    /\ hist \in {<<ir>> : ir \in SeqsUpTo(Instructions, MaxIRLen) \cup {TestVector}}
    /\ input = <<>> /\ wlog = <<>> /\ lazy = FALSE
    /\ vm = NoVM /\ heap = <<>> /\ reclaimed = <<>>
    /\ result = [o \in BOOLEAN |-> None]

NextOptimize == OptimizeCall

SpecOptimize == InitOptimize /\ [][NextOptimize]_vars

(***************************************************************************)
(* The echo program `+[,.]` on input streams that deliver their bytes and  *)
(* then report end of input, with an output sink that takes every byte.    *)
(***************************************************************************)
EchoSource == <<"+", "[", ",", ".", "]">>
\* NUL, `H` and `i`
EchoBytes == {0, 72, 105}

InitEcho ==
    /\ src = EchoSource
    /\ input \in SeqsUpTo({Ok1(b) : b \in EchoBytes}, EchoMaxInput)
    /\ wlog = <<>> /\ lazy = FALSE
    /\ Idle

NextEcho ==
    \/ \E o \in BOOLEAN : New(o)
    \/ RunEnter
    \/ ExecAddVal
    \/ ExecGetByte
    \/ ExecPutByte
    \/ ExecJz
    \/ ExecJnz
    \/ ExecEnd
    \/ RunReturn

SpecEcho == InitEcho /\ [][NextEcho]_vars

(***************************************************************************)
(* Reading a source text without the parser's stack: counting characters   *)
(* and pairing brackets.                                                   *)
(***************************************************************************)
\* occurrences of ch among s[a..b]
CountIn(s, ch, a, b) == Cardinality({m \in a..b : s[m] = ch})

\* s[a..b] opens no bracket it does not close and closes none it did not open
BalancedIn(s, a, b) ==
    /\ CountIn(s, "[", a, b) = CountIn(s, "]", a, b)
    /\ \A m \in a..b : CountIn(s, "[", a, m) >= CountIn(s, "]", a, m)

\* the `[` at i has a matching later `]` at the same nesting depth
HasMatch(s, i) ==
    \E j \in (i + 1)..Len(s) : s[j] = "]" /\ BalancedIn(s, i + 1, j - 1)

\* the `]` at j has a matching earlier `[` at the same nesting depth
HasOpener(s, j) ==
    \E i \in 1..(j - 1) : s[i] = "[" /\ BalancedIn(s, i + 1, j - 1)

EveryLeftMatched(s) == \A i \in 1..Len(s) : s[i] = "[" => HasMatch(s, i)
EveryRightMatched(s) == \A j \in 1..Len(s) : s[j] = "]" => HasOpener(s, j)

\* the `]` read while no `[` is pending
Strays(s) ==
    {k \in 1..Len(s) : s[k] = "]" /\ CountIn(s, "[", 1, k - 1) = CountIn(s, "]", 1, k - 1)}
\* the `[` never closed
Unclosed(s) == {i \in 1..Len(s) : s[i] = "[" /\ ~HasMatch(s, i)}

Least(S) == CHOOSE m \in S : \A n \in S : m <= n
Greatest(S) == CHOOSE m \in S : \A n \in S : m >= n

\* 1-based position of the character at k
LineOf(s, k) == 1 + CountIn(s, "\n", 1, k - 1)
ColOf(s, k) == k - Greatest({0} \cup {m \in 1..(k - 1) : s[m] = "\n"})

Compiled == cres # NoResult

\* C1, as stated: compile returns Ok if and only if every `[` has a matching
\* later `]` at the same nesting depth, and otherwise a CompileError and no IR.
C1_AsStated ==
    Compiled =>
        /\ cres.ok <=> EveryLeftMatched(src)
        /\ ~cres.ok =>
              /\ cres.err.kind \in {"UnclosedLeftBracket", "UnexpectedRightBracket"}
              /\ cres.ir = <<>>

\* C1, amended: compile returns Ok if and only if every `[` has a matching
\* later `]` and every `]` a matching earlier `[` at the same nesting depth;
\* otherwise it returns a CompileError and no IR.
C1_BalancedIffOk ==
    Compiled =>
        /\ cres.ok <=> (EveryLeftMatched(src) /\ EveryRightMatched(src))
        /\ ~cres.ok =>
              /\ cres.err.kind \in {"UnclosedLeftBracket", "UnexpectedRightBracket"}
              /\ cres.ir = <<>>

\* a text whose every `[` is matched and which compile refuses for a stray `]`
C1_Witness ==
    /\ Compiled /\ ~cres.ok
    /\ \E i \in 1..Len(src) : src[i] = "["
    /\ EveryLeftMatched(src)

Strip(s) == SelectSeq(s, LAMBDA c : c \in Operators)

InstructionOf(ch) ==
    CASE ch = "+" -> AddVal(1)
      [] ch = "-" -> SubVal(1)
      [] ch = ">" -> AddPtr(1)
      [] ch = "<" -> SubPtr(1)
      [] ch = "," -> GetByte
      [] ch = "." -> PutByte
      [] ch = "[" -> Jz
      [] ch = "]" -> Jnz

\* the trivial pretty-printer: an instruction back as its character
CharOf(instr) ==
    CASE instr.op = "AddVal" -> "+"
      [] instr.op = "SubVal" -> "-"
      [] instr.op = "AddPtr" -> ">"
      [] instr.op = "SubPtr" -> "<"
      [] instr.op = "GetByte" -> ","
      [] instr.op = "PutByte" -> "."
      [] instr.op = "Jz" -> "["
      [] instr.op = "Jnz" -> "]"

\* C7: the IR of a text that parses has one instruction per operator
\* character, in order, with operand 1 and nothing fused; printing it back
\* gives the text without its non-operator characters.
C7_OneInstructionPerOperator ==
    (Compiled /\ cres.ok) =>
        /\ cres.ir = [k \in 1..Len(Strip(src)) |-> InstructionOf(Strip(src)[k])]
        /\ [k \in 1..Len(cres.ir) |-> CharOf(cres.ir[k])] = Strip(src)

\* a run of equal operators left unfused, beside a character the parser ignores
C7_Witness ==
    /\ Compiled /\ cres.ok
    /\ Len(cres.ir) < Len(src)
    /\ \E k \in 1..(Len(cres.ir) - 1) :
          cres.ir[k] = cres.ir[k + 1] /\ cres.ir[k].op = "AddPtr"

(***************************************************************************)
(* Folding stated without the two-index pass: the maximal runs of an IR    *)
(* vector and the sum of each.                                             *)
(***************************************************************************)
\* instruction k begins a maximal run (an instruction that is not folded is
\* a run by itself)
RunStart(ir, k) == k = 1 \/ ~Foldable(ir[k].op) \/ ir[k - 1].op # ir[k].op

RunStarts(ir) == {k \in 1..Len(ir) : RunStart(ir, k)}

\* the last instruction of the run that begins at k
RunEnd(ir, k) ==
    IF Foldable(ir[k].op)
    THEN Greatest({j \in k..Len(ir) : \A m \in k..j : ir[m].op = ir[k].op})
    ELSE k

RECURSIVE SumOperands(_, _, _)
SumOperands(ir, a, b) == IF a > b THEN 0 ELSE ir[a].x + SumOperands(ir, a + 1, b)

\* the n-th run start, counting from 1
NthStart(ir, n) ==
    CHOOSE k \in RunStarts(ir) : Cardinality({m \in RunStarts(ir) : m < k}) = n - 1

Folded(ir) ==
    [n \in 1..Cardinality(RunStarts(ir)) |->
        LET k == NthStart(ir, n)
            sum == SumOperands(ir, k, RunEnd(ir, k))
        IN  CASE ir[k].op \in {"AddVal", "SubVal"} -> [op |-> ir[k].op, x |-> sum % U8_RANGE]
              [] ir[k].op \in {"AddPtr", "SubPtr"} -> [op |-> ir[k].op, x |-> sum % U32_RANGE]
              [] OTHER -> ir[k]]

\* C8: optimize is idempotent: on any IR vector, a second call changes nothing.
C8_OptimizeIdempotent == Len(hist) = 3 => hist[3] = hist[2]

\* two calls made on a vector the first call shortened
C8_Witness == Len(hist) = 3 /\ Len(hist[2]) < Len(hist[1]) /\ Len(hist[2]) >= 2

\* C9: optimize replaces each maximal run of one of AddVal, SubVal, AddPtr,
\* SubPtr by one instruction of that variant whose operand is the run's sum
\* wrapped in the operand width, keeps every other instruction in place and
\* order, truncates to what it wrote, and keeps a run that sums to 0; the IR
\* of `[+++++]` becomes [Jz, AddVal(5), Jnz].
C9_FoldsMaximalRuns ==
    Len(hist) >= 2 =>
        /\ hist[2] = Folded(hist[1])
        /\ hist[1] = TestVector => hist[2] = <<Jz, AddVal(5), Jnz>>

\* a run of AddVal whose sum wraps to 0, kept as AddVal(0) before a Jnz
C9_Witness ==
    /\ Len(hist) >= 2
    /\ Len(hist[1]) = 3 /\ Len(hist[2]) = 2
    /\ hist[2][1] = AddVal(0) /\ hist[2][2] = Jnz

(***************************************************************************)
(* Claims about a run of the generated code.                               *)
(***************************************************************************)
Finished(o) == result[o] # None
\* the tape pointer as an offset into the tape
Offset == vm.r15 - vm.memory_start
PointerOverflowRecord == [kind |-> "PointerOverflow"]

\* C2: for the IR of a source text that parses and an input on which both
\* runs end, the code generated for optimize(IR) writes the same bytes and
\* ends with the same verdict as the code generated for the IR itself.
C2_OptimizePreservesBehaviour ==
    (Finished(TRUE) /\ Finished(FALSE) /\ compile(src).ok) =>
        /\ result[TRUE].output = result[FALSE].output
        /\ result[TRUE].verdict = result[FALSE].verdict

\* C3: the tape pointer is inside the tape whenever the generated code stands
\* at an IR instruction (where cells are accessed and callbacks entered); an
\* AddPtr(k) or SubPtr(k) that would leave the tape ends the run with
\* PointerOverflow, and nothing is written, read or output after it.
C3_Step ==
    /\ vm'.phase = "jit" => InTape'
    /\ (Running /\ (\/ Instr.op = "AddPtr" /\ Offset + Instr.x >= MAX_MEM_SIZE
                    \/ Instr.op = "SubPtr" /\ Offset - Instr.x < 0)) =>
          /\ vm'.phase = "exit"
          /\ heap' = <<PointerOverflowRecord>> /\ vm'.rax = 1
          /\ vm'.memory = vm.memory /\ vm'.output = vm.output /\ vm'.inpos = vm.inpos
    /\ vm.phase = "exit" =>
          /\ vm'.phase = "returned"
          /\ vm'.memory = vm.memory /\ vm'.output = vm.output /\ vm'.inpos = vm.inpos
          /\ vm.rax # 0 => result'[vm.optimize].verdict = heap[vm.rax].kind

\* C3: every step of a run satisfies C3_Step: the pointer stays inside the
\* tape, and a move that would leave it ends the run with PointerOverflow.
C3_PointerStaysInTape == [][C3_Step]_vars

\* a run ended by a SubPtr below cell 0 after the pointer had moved up
C3_Witness ==
    /\ vm.phase = "exit" /\ heap = <<PointerOverflowRecord>>
    /\ Instr.op = "SubPtr" /\ vm.pc = 2
    /\ vm.code[1].op = "AddPtr"

\* the reads the current run has consumed
Consumed == SubSeq(input, 1, vm.inpos)

\* C4, in a state: no error record exists while the code runs; the entry
\* function returns null exactly when it ran off the end of the IR with no
\* failure, and otherwise the single record boxed for the failure at the
\* instruction it stopped at (end of input being no failure); run reclaims
\* that record once and returns it as Err.
C4_State ==
    /\ vm.phase \in {"ready", "jit"} => heap = <<>> /\ reclaimed = <<>>
    /\ vm.phase \in {"exit", "returned"} =>
          /\ vm.rax = 0 <=> (vm.pc = Len(vm.code) /\ \A k \in 1..vm.inpos : ~input[k].err)
          /\ vm.rax = 0 => heap = <<>>
          /\ vm.rax # 0 =>
                /\ Len(heap) = 1 /\ vm.rax = 1
                /\ heap[1].kind = IF Instr.op \in {"AddPtr", "SubPtr"}
                                  THEN "PointerOverflow" ELSE "IO"
                /\ Instr.op = "GetByte" => Consumed[vm.inpos].err
                /\ Instr.op = "PutByte" => ~wlog[Len(vm.output) + 1]
    /\ vm.phase = "exit" => reclaimed = <<>>
    /\ vm.phase = "returned" =>
          /\ reclaimed = IF vm.rax = 0 THEN <<>> ELSE <<vm.rax>>
          /\ result[vm.optimize].verdict = IF vm.rax = 0 THEN "Ok" ELSE heap[vm.rax].kind

\* C4, in a step: C4_State is kept, and a getbyte that meets end of input goes
\* on to the next instruction with the tape unchanged.
C4_Step ==
    /\ C4_State'
    /\ (Running /\ Instr.op = "GetByte" /\ vm'.inpos > vm.inpos
          /\ input'[vm'.inpos] = Ok0) =>
          /\ vm'.phase = "jit" /\ vm'.pc = vm.pc + 1 /\ vm'.memory = vm.memory

\* C4: every step of a run satisfies C4_Step: null is returned exactly on a
\* normal end, else the one error record, which run reclaims exactly once.
C4_NullIffNormalEnd == [][C4_Step]_vars

\* run has returned Err for a write the sink refused, after a read that met
\* end of input
C4_Witness ==
    /\ vm.phase = "returned" /\ vm.rax = 1 /\ reclaimed = <<1>>
    /\ result[vm.optimize].verdict = "IO"
    /\ Instr.op = "PutByte"
    /\ vm.inpos = 1 /\ input[1] = Ok0

(***************************************************************************)
(* Bracket partners of an IR vector, stated without the loop stack.        *)
(***************************************************************************)
\* Jz minus Jnz among code[a..b]
DepthIn(code, a, b) ==
    Cardinality({m \in a..b : code[m].op = "Jz"})
        - Cardinality({m \in a..b : code[m].op = "Jnz"})

\* the Jnz at j closes the Jz at k
Partners(code, k, j) ==
    /\ k < j /\ code[k].op = "Jz" /\ code[j].op = "Jnz"
    /\ DepthIn(code, k, j) = 0
    /\ \A m \in k..(j - 1) : DepthIn(code, k, m) > 0

Built == vm.phase \in {"ready", "jit", "exit", "returned"}

\* C10, the generated code: the loop stack was never popped empty and is
\* empty at the end, and each jump leads past the bracket partner.
C10_State ==
    /\ vm.phase # "panic"
    /\ Built =>
          /\ vm.loop_stack = <<>>
          /\ \A k \in 1..Len(vm.code) :
                /\ vm.code[k].op = "Jz" =>
                      \E j \in 1..Len(vm.code) :
                          Partners(vm.code, k, j) /\ vm.target[k] = j
                /\ vm.code[k].op = "Jnz" =>
                      \E i \in 1..Len(vm.code) :
                          Partners(vm.code, i, k) /\ vm.target[k] = i

\* C10, in a step: for the IR of a text that parsed, optimised or not,
\* C10_State holds,
\* a Jz on a zero cell continues after its matching Jnz and a Jnz on a
\* non-zero cell after its matching Jz (positions count instructions from 0).
C10_Step ==
    /\ C10_State'
    /\ (Running /\ Instr.op = "Jz") =>
          IF Cell = 0 THEN Partners(vm.code, vm.pc + 1, vm'.pc) ELSE vm'.pc = vm.pc + 1
    /\ (Running /\ Instr.op = "Jnz") =>
          IF Cell # 0 THEN Partners(vm.code, vm'.pc, vm.pc + 1) ELSE vm'.pc = vm.pc + 1

\* C10: every step satisfies C10_Step: the loop stack pairs each Jnz with its
\* bracket partner, and the jumps taken at run time follow that pairing.
C10_LoopsPaired == [][C10_Step]_vars

\* optimised code, shortened by a fold, standing at a Jnz on a non-zero cell
C10_Witness ==
    /\ vm.phase = "jit" /\ vm.optimize
    /\ Len(vm.code) < Len(src)
    /\ Running /\ Instr.op = "Jnz" /\ Cell # 0

\* the bytes an input stream delivers before its first zero byte
RECURSIVE UntilZero(_)
UntilZero(in) ==
    IF in = <<>> \/ in[1].b = 0 THEN <<>> ELSE <<in[1].b>> \o UntilZero(Tail(in))

HasZero(in) == \E k \in 1..Len(in) : in[k].b = 0

\* C5, as stated: on an input whose first zero byte follows b1..bk, `+[,.]`
\* writes exactly b1..bk and run returns success.
C5_AsStated ==
    \A o \in BOOLEAN :
        (src = EchoSource /\ Finished(o) /\ HasZero(input)) =>
            /\ result[o].output = UntilZero(input)
            /\ result[o].verdict = "Ok"

\* C5, amended: on an input whose first zero byte follows b1..bk, `+[,.]`
\* writes b1..bk and then the zero byte, and run returns success.
C5_EchoesThroughZero ==
    \A o \in BOOLEAN :
        (src = EchoSource /\ Finished(o) /\ HasZero(input)) =>
            /\ result[o].output = Append(UntilZero(input), 0)
            /\ result[o].verdict = "Ok"

\* stdin `Hi\0`: the run has returned success with `H`, `i` and NUL written
C5_Witness ==
    /\ src = EchoSource
    /\ input = <<Ok1(72), Ok1(105), Ok1(0)>>
    /\ result[FALSE] = [verdict |-> "Ok", output |-> <<72, 105, 0>>]

====
